---- MODULE Spec2Model ----
(***************************************************************************)
(* Model of the automated error-detection-and-remediation loop of          *)
(* auto_fix_errors.py (class ErrorFixer and main).                          *)
(*                                                                         *)
(* Text is modelled at token level: a path is the sequence of its parts,   *)
(* a source line and a diagnostic message are sequences of lexical tokens, *)
(* a log file is the sequence of the error chunks written into it.         *)
(* Fingerprints are the strings the code formats.                          *)
(***************************************************************************)
EXTENDS Integers, Sequences, FiniteSets, TLC

VARIABLES
    pc,              \* position of run()/main(): start, loop, scan, fix, cycle_end,
                     \* sleep, summary, done; aborted after an uncaught exception
    max_iterations,  \* ErrorFixer.max_iterations (--max-iterations)
    iteration,       \* ErrorFixer.iteration
    seen_errors,     \* ErrorFixer.seen_errors
    fixed_errors,    \* ErrorFixer.fixed_errors
    total_fixes,     \* local total_fixes of run()
    fixes_applied,   \* local fixes_applied of run_fix_cycle()
    webpack_errors,  \* events returned by get_webpack_errors() not yet iterated over
    success,         \* value returned by run(), meaningful once pc = "done"
    exit_code,       \* argument of sys.exit(): -1 until the process exits
    health,          \* environment: what each service answers to requests.get
    logs,            \* environment: the file frontend/<app>/<app>.log of each app
    tsconfig,        \* environment: the file frontend/<app>/tsconfig.json of each app
    files,           \* environment: the lines of the source file SourceFile
    procs,           \* environment: directories whose webpack process is running
    writes,          \* number of chunks the services have appended to their logs
    emitted,         \* history: how often each fingerprint was returned by an adapter
    calls,           \* history: the fix strategy invocations, in order
    restarts         \* history: the restart_service invocations, in order

vars == <<pc, max_iterations, iteration, seen_errors, fixed_errors, total_fixes,
          fixes_applied, webpack_errors, success, exit_code, health, logs,
          tsconfig, files, procs, writes, emitted, calls, restarts>>

-----------------------------------------------------------------------------
(* Bounds of the model *)

\* largest value of --max-iterations explored
MaxIterations == 4

\* largest number of chunks the services append to their logs during a run
MaxWrites == 2

-----------------------------------------------------------------------------
(* Program constants *)

HTTP_OK == 200

\* "if self.iteration >= 3" in run()
StableIterations == 3

\* ErrorFixer.services: the names of the health-checked services
services == <<"container", "user-management", "data-grid", "analytics", "settings">>

\* frontend_apps of get_webpack_errors
frontend_apps == <<"container", "user-management-app", "data-grid-app",
                   "analytics-app", "settings-app">>

\* ErrorFixer.project_root, as path parts (--project-root /w)
project_root == <<"/", "w">>

RangeOf(s) == {s[i] : i \in 1..Len(s)}

-----------------------------------------------------------------------------
(* Paths: pathlib.Path as the sequence of its parts *)

RECURSIVE JoinParts(_)
JoinParts(parts) ==
    IF parts = <<>> THEN ""
    ELSE IF Len(parts) = 1 THEN parts[1]
    ELSE parts[1] \o "/" \o JoinParts(Tail(parts))

\* str(path)
PathStr(parts) ==
    IF parts = <<>> THEN "."
    ELSE IF parts[1] = "/" THEN "/" \o JoinParts(Tail(parts))
    ELSE JoinParts(parts)

\* file_path.replace("./src/", ""): every "." part followed by a "src" part goes
RECURSIVE StripDotSrc(_)
StripDotSrc(parts) ==
    IF parts = <<>> THEN <<>>
    ELSE IF Len(parts) >= 2 /\ parts[1] = "." /\ parts[2] = "src"
         THEN StripDotSrc(Tail(Tail(parts)))
    ELSE <<parts[1]>> \o StripDotSrc(Tail(parts))

\* file_path.replace("./", ""): every "." part followed by another part goes
RECURSIVE StripDot(_)
StripDot(parts) ==
    IF parts = <<>> THEN <<>>
    ELSE IF Len(parts) >= 2 /\ parts[1] = "."
         THEN StripDot(Tail(parts))
    ELSE <<parts[1]>> \o StripDot(Tail(parts))

\* the directory frontend/<name> under the project root
FrontendDir(name) == project_root \o <<"frontend", name>>

\* the per-service log file get_webpack_errors reads for app
LogFileOf(app) == PathStr(FrontendDir(app) \o <<app \o ".log">>)

-----------------------------------------------------------------------------
(* The build logs.  A log file is [exists, content]; its content is the      *)
(* sequence of the chunks the build wrote, each chunk one match candidate of *)
(* one of the three patterns of get_webpack_errors.                          *)

\* the one source file of the model, frontend/container/src/Foo.tsx
SourceFile == FrontendDir("container") \o <<"src", "Foo.tsx">>

\* "Parameter 'x' implicitly has an 'any' type."
MsgImplicitAny == <<"Parameter", "'", "x", "'", "implicitly", "has", "an", "'", "any", "'", "type.">>

\* "Cannot find module '../shared-ui-lib' or its corresponding type declarations."
MsgNoModule == <<"Cannot", "find", "module", "'", "../", "shared-ui-lib", "'">>

\* a compiler-diagnostic block: "ERROR in <file>\n...[tsl] ERROR in <file>(<line>,<col>)\n TS<code>: <message>"
TsChunk(file, line, col, code, message) ==
    [fam |-> "typescript", file |-> file, line |-> line, col |-> col,
     code |-> code, message |-> message]

\* "Module not found: Error: Can't resolve '<module>' in '<location>'"; hdr tells
\* whether the build printed its "ERROR in <file>" line in front of it
ModuleChunk(hdr, module, location) ==
    [fam |-> "missing_module", hdr |-> hdr, module |-> module, location |-> location]

\* "Error: TypeScript emitted no output for <file>.tsx"; hdr as for ModuleChunk
NoOutputChunk(hdr, file) ==
    [fam |-> "tsconfig_no_emit", hdr |-> hdr, file |-> file]

\* the chunks the build of app can write into its log
AppChunks(app) ==
    IF app = "container"
    THEN { ModuleChunk(TRUE, "lodash", PathStr(FrontendDir(app) \o <<"src">>)),
           NoOutputChunk(TRUE, PathStr(FrontendDir(app) \o <<"src", "index">>)),
           TsChunk(SourceFile, 1, 1, "2307", MsgNoModule),
           TsChunk(<<".", "src", "Foo.tsx">>, 2, 1, "7006", MsgImplicitAny) }
    ELSE IF app \in {"user-management-app", "settings-app"}
    THEN { ModuleChunk(TRUE, "lodash", PathStr(FrontendDir(app) \o <<"src">>)) }
    ELSE {}

\* "ERROR in" in content
HasErrorIn(content) ==
    \E i \in 1..Len(content) :
        \/ content[i].fam = "typescript"
        \/ content[i].fam # "typescript" /\ content[i].hdr

\* the matches of one pattern, in the order of the content (re.finditer)
RECURSIVE Matches(_, _)
Matches(content, fam) ==
    IF content = <<>> THEN <<>>
    ELSE (IF content[1].fam = fam THEN <<content[1]>> ELSE <<>>)
         \o Matches(Tail(content), fam)

\* error_id of a match, as formatted by get_webpack_errors
ErrorId(app, m) ==
    IF m.fam = "typescript"
    THEN PathStr(m.file) \o ":" \o ToString(m.line) \o ":" \o m.code
    ELSE IF m.fam = "missing_module" THEN "missing:" \o m.module
    ELSE "no_output:" \o app

\* the dict appended to errors for a match
ErrorOf(app, m) ==
    IF m.fam = "typescript"
    THEN [type |-> "typescript", app |-> app, file |-> m.file, line |-> m.line,
          column |-> m.col, code |-> "TS" \o m.code, message |-> m.message,
          id |-> ErrorId(app, m)]
    ELSE IF m.fam = "missing_module"
    THEN [type |-> "missing_module", app |-> app, module |-> m.module,
          location |-> m.location, id |-> ErrorId(app, m)]
    ELSE [type |-> "tsconfig_no_emit", app |-> app, file |-> m.file,
          id |-> ErrorId(app, m)]

\* a build-log adapter that does not consult seen_errors
IsNew_unchecked(error_id, seen) == TRUE

\* "if error_id not in self.seen_errors"
IsNew(error_id, seen) == error_id \notin seen

\* a loop that checks seen_errors but does not add the fingerprint to it
RECURSIVE ScanMatches_noadd(_, _, _)
ScanMatches_noadd(app, ms, acc) ==
    IF ms = <<>> THEN acc
    ELSE LET error_id == ErrorId(app, ms[1])
         IN  ScanMatches_noadd(app, Tail(ms),
                IF IsNew(error_id, acc.seen)
                THEN [errors |-> Append(acc.errors, ErrorOf(app, ms[1])),
                      seen   |-> acc.seen]
                ELSE acc)

\* one "for match in ..." loop: acc is [errors, seen]
RECURSIVE ScanMatches(_, _, _)
ScanMatches(app, ms, acc) ==
    IF ms = <<>> THEN acc
    ELSE LET error_id == ErrorId(app, ms[1])
         IN  ScanMatches(app, Tail(ms),
                IF IsNew(error_id, acc.seen)
                THEN [errors |-> Append(acc.errors, ErrorOf(app, ms[1])),
                      seen   |-> acc.seen \cup {error_id}]
                ELSE acc)

\* the body of "for app in frontend_apps" for one app; fails tells that open() or
\* read() of the log raises, which the except clause of the loop body turns into
\* a warning
ScanApp(app, log, fails, acc) ==
    IF ~log.exists THEN acc
    ELSE IF fails THEN acc
    ELSE IF ~HasErrorIn(log.content) THEN acc
    ELSE LET a1 == ScanMatches(app, Matches(log.content, "typescript"), acc)
             a2 == ScanMatches(app, Matches(log.content, "missing_module"), a1)
         IN  ScanMatches(app, Matches(log.content, "tsconfig_no_emit"), a2)

RECURSIVE ScanApps(_, _, _, _)
ScanApps(apps, lg, unreadable, acc) ==
    IF apps = <<>> THEN acc
    ELSE ScanApps(Tail(apps), lg, unreadable,
                  ScanApp(apps[1], lg[apps[1]], apps[1] \in unreadable, acc))

\* get_webpack_errors: [errors |-> the list returned, seen |-> seen_errors afterwards]
get_webpack_errors(lg, unreadable, seen) ==
    ScanApps(frontend_apps, lg, unreadable, [errors |-> <<>>, seen |-> seen])

-----------------------------------------------------------------------------
(* The line edits of the type-error strategies.  A line is the sequence of  *)
(* its tokens; each re.sub is computed on the tokens.                       *)

Quotes == {"\"", "'"}

\* tokens matching \w+
Words == {"import", "from", "const", "f", "x", "y", "obj", "fn", "args", "this",
          "apply", "as", "any", "Button"}

\* tokens in which the character "." occurs
DotTokens == {".", "../", "./"}

Repeat(tok, n) == [i \in 1..n |-> tok]

\* len([p for p in file_path.parts if p == "src"])
SrcDepth(parts) == Cardinality({i \in 1..Len(parts) : parts[i] = "src"})

\* the index lines[line - 1] denotes in a list of n lines (1-based), 0 when it
\* raises IndexError: Python reads lines[-1], the last line, for line = 0
TargetIndex(line, n) ==
    IF line >= 1 THEN line
    ELSE IF n >= 1 THEN n
    ELSE 0

\* 'as any' in target_line
HasAsAny(l) == \E i \in 1..(Len(l) - 1) : l[i] = "as" /\ l[i + 1] = "any"

\* index behind the run of "../" tokens that starts at i
RECURSIVE SkipUp(_, _)
SkipUp(l, i) == IF i <= Len(l) /\ l[i] = "../" THEN SkipUp(l, i + 1) ELSE i

\* r'from ["\'](\.\./)*shared-ui-lib' matched at token i: the index of its last
\* token, 0 when it does not match there
ImportMatchEnd(l, i) ==
    IF i + 1 <= Len(l) /\ l[i] = "from" /\ l[i + 1] \in Quotes
    THEN LET j == SkipUp(l, i + 2)
         IN  IF j <= Len(l) /\ l[j] = "shared-ui-lib" THEN j ELSE 0
    ELSE 0

\* re.sub(r'from ["\'](\.\./)*shared-ui-lib', f'from \'{correct_prefix}shared-ui-lib', l)
RECURSIVE SubImport(_, _, _)
SubImport(l, i, prefix) ==
    IF i > Len(l) THEN <<>>
    ELSE LET j == ImportMatchEnd(l, i)
         IN  IF j > 0
             THEN <<"from", "'">> \o prefix \o <<"shared-ui-lib">> \o SubImport(l, j + 1, prefix)
             ELSE <<l[i]>> \o SubImport(l, i + 1, prefix)

\* re.search(r"Parameter '(\w+)' implicitly", message): the indexes of the matches
ParamMatches(message) ==
    {i \in 1..(Len(message) - 4) :
        /\ message[i] = "Parameter" /\ message[i + 1] = "'"
        /\ message[i + 2] \in Words
        /\ message[i + 3] = "'" /\ message[i + 4] = "implicitly"}

Min(S) == CHOOSE m \in S : \A n \in S : m <= n

\* re.sub(rf'\b{param_name}\b(?!\s*:)', f'{param_name}: any', l)
RECURSIVE SubAnnotate(_, _, _)
SubAnnotate(l, i, param_name) ==
    IF i > Len(l) THEN <<>>
    ELSE IF l[i] = param_name /\ ~(i + 1 <= Len(l) /\ l[i + 1] = ":")
         THEN <<param_name, ":", "any">> \o SubAnnotate(l, i + 1, param_name)
    ELSE <<l[i]>> \o SubAnnotate(l, i + 1, param_name)

\* re.search(r"Property '(\w+)' does not exist on type", message)
PropertyMatches(message) ==
    {i \in 1..(Len(message) - 8) :
        /\ message[i] = "Property" /\ message[i + 1] = "'"
        /\ message[i + 2] \in Words
        /\ SubSeq(message, i + 3, i + 8) = <<"'", "does", "not", "exist", "on", "type">>}

\* the indexes at which r'(\w+)\.(\w+)' matches
AccessMatches(l) ==
    {i \in 1..(Len(l) - 2) : l[i] \in Words /\ l[i + 1] = "." /\ l[i + 2] \in Words}

\* re.sub(r'(\w+)\.(\w+)', r'(\1 as any).\2', l, count=1)
SubAssert(l) ==
    IF AccessMatches(l) = {} THEN l
    ELSE LET i == Min(AccessMatches(l))
         IN  SubSeq(l, 1, i - 1) \o <<"(", l[i], "as", "any", ")", ".", l[i + 2]>>
             \o SubSeq(l, i + 3, Len(l))

\* first index from i on whose token is in stop, Len(l) + 1 when there is none
RECURSIVE FindStop(_, _, _)
FindStop(l, i, stop) ==
    IF i > Len(l) \/ l[i] \in stop THEN i ELSE FindStop(l, i + 1, stop)

\* r'\.apply\(([^,)]+),\s*([^)]+)\)' matched at token i: <<index of the comma,
\* index of the closing parenthesis>>, <<0, 0>> when it does not match there
ApplyMatch(l, i) ==
    IF i + 2 <= Len(l) /\ l[i] = "." /\ l[i + 1] = "apply" /\ l[i + 2] = "("
    THEN LET c == FindStop(l, i + 3, {",", ")"})
             e == FindStop(l, c + 1, {")"})
         IN  IF c > i + 3 /\ c <= Len(l) /\ l[c] = "," /\ e > c + 1 /\ e <= Len(l)
             THEN <<c, e>> ELSE <<0, 0>>
    ELSE <<0, 0>>

\* re.sub(r'\.apply\(([^,)]+),\s*([^)]+)\)', r'.apply(\1, \2 as any)', l)
RECURSIVE SubApply(_, _)
SubApply(l, i) ==
    IF i > Len(l) THEN <<>>
    ELSE LET m == ApplyMatch(l, i)
         IN  IF m[2] > 0
             THEN SubSeq(l, i, m[2] - 1) \o <<"as", "any", ")">> \o SubApply(l, m[2] + 1)
             ELSE <<l[i]>> \o SubApply(l, i + 1)

-----------------------------------------------------------------------------
(* The fix strategies.  Each returns what it reports (applied) and what it  *)
(* leaves behind: the source files, tsconfig files and fixed_errors.        *)

\* file_path.exists(), open(file_path): the source files are keyed by str(path)
Exists(parts, fs) == PathStr(parts) \in DOMAIN fs

\* lines[line - 1] = updated_line; f.writelines(lines)
WriteLine(fs, path, idx, updated_line) ==
    [fs EXCEPT ![path] = [@ EXCEPT ![idx] = updated_line]]

\* the identifier a line-edit strategy adds to fixed_errors: f"{file_path}:{line}:TS<code>"
LineFixId(file_path, line, code) ==
    PathStr(file_path) \o ":" \o ToString(line) \o ":" \o code

\* the shared tail of the four line-edit strategies: write back and record when
\* the substitution changed the line
EditResult(file_path, line, code, idx, updated_line, fs, fixed) ==
    IF updated_line # fs[PathStr(file_path)][idx]
    THEN [applied |-> TRUE,
          files   |-> WriteLine(fs, PathStr(file_path), idx, updated_line),
          fixed   |-> fixed \cup {LineFixId(file_path, line, code)}]
    ELSE [applied |-> FALSE, files |-> fs, fixed |-> fixed]

fix_module_not_found(file_path, line, message, fs, fixed) ==
    LET lines == fs[PathStr(file_path)]
        idx   == TargetIndex(line, Len(lines))
        no    == [applied |-> FALSE, files |-> fs, fixed |-> fixed]
    IN  IF line > Len(lines) \/ idx = 0 THEN no
        ELSE IF "shared-ui-lib" \notin RangeOf(lines[idx]) THEN no
        ELSE IF SrcDepth(file_path) = 0 THEN no
        ELSE EditResult(file_path, line, "TS2307", idx,
                        SubImport(lines[idx], 1, Repeat("../", SrcDepth(file_path) + 1)),
                        fs, fixed)

fix_implicit_any(file_path, line, message, fs, fixed) ==
    LET lines == fs[PathStr(file_path)]
        idx   == TargetIndex(line, Len(lines))
        no    == [applied |-> FALSE, files |-> fs, fixed |-> fixed]
    IN  IF ParamMatches(message) = {} THEN no
        ELSE IF line > Len(lines) \/ idx = 0 THEN no
        ELSE EditResult(file_path, line, "TS7006", idx,
                        SubAnnotate(lines[idx], 1, message[Min(ParamMatches(message)) + 2]),
                        fs, fixed)

fix_property_not_exist(file_path, line, message, fs, fixed) ==
    LET lines == fs[PathStr(file_path)]
        idx   == TargetIndex(line, Len(lines))
        no    == [applied |-> FALSE, files |-> fs, fixed |-> fixed]
    IN  IF line > Len(lines) \/ idx = 0 THEN no
        ELSE IF RangeOf(lines[idx]) \cap DotTokens = {} \/ HasAsAny(lines[idx]) THEN no
        ELSE IF PropertyMatches(message) = {} THEN no
        ELSE EditResult(file_path, line, "TS2339", idx, SubAssert(lines[idx]), fs, fixed)

fix_type_mismatch(file_path, line, message, fs, fixed) ==
    LET lines == fs[PathStr(file_path)]
        idx   == TargetIndex(line, Len(lines))
        no    == [applied |-> FALSE, files |-> fs, fixed |-> fixed]
    IN  IF line > Len(lines) \/ idx = 0 THEN no
        ELSE IF HasAsAny(lines[idx]) THEN no
        ELSE EditResult(file_path, line, "TS2345", idx, SubApply(lines[idx], 1), fs, fixed)

\* possible_paths of fix_typescript_error for a relative file_path
PossiblePaths(error) ==
    << FrontendDir(error.app) \o <<"src">> \o StripDotSrc(error.file),
       FrontendDir(error.app) \o StripDot(error.file),
       project_root \o StripDot(error.file) >>

\* the file fix_typescript_error edits, <<>> when it locates none
LocateFile(error, fs) ==
    IF error.file[1] # "/"
    THEN LET found == {i \in 1..3 : Exists(PossiblePaths(error)[i], fs)}
         IN  IF found = {} THEN <<>> ELSE PossiblePaths(error)[Min(found)]
    ELSE IF Exists(error.file, fs) THEN error.file ELSE <<>>

\* what Path.exists() does on the path a diagnostic names: it answers, or stat()
\* fails with an error other than "no such file" (EACCES for a directory that
\* cannot be searched, ENAMETOOLONG), which exists() of Python up to 3.11 raises
StatOutcomes == {"answers", "raises"}

\* the dispatch of fix_typescript_error once the file is located
EditFor(error, file_path, fs, fixed) ==
    IF file_path = <<>> THEN [applied |-> FALSE, files |-> fs, fixed |-> fixed]
    ELSE IF error.code = "TS2307"
         THEN fix_module_not_found(file_path, error.line, error.message, fs, fixed)
    ELSE IF error.code = "TS7006"
         THEN fix_implicit_any(file_path, error.line, error.message, fs, fixed)
    ELSE IF error.code = "TS2339"
         THEN fix_property_not_exist(file_path, error.line, error.message, fs, fixed)
    ELSE IF error.code = "TS2345"
         THEN fix_type_mismatch(file_path, error.line, error.message, fs, fixed)
    ELSE [applied |-> FALSE, files |-> fs, fixed |-> fixed]

\* fix_typescript_error.  Its exists() calls are in no try block: raised tells
\* that the exception leaves the method.
fix_typescript_error(error, stat, fs, fixed) ==
    IF stat = "raises"
    THEN [applied |-> FALSE, files |-> fs, fixed |-> fixed, raised |-> TRUE]
    ELSE LET r == EditFor(error, LocateFile(error, fs), fs, fixed)
         IN  [applied |-> r.applied, files |-> r.files, fixed |-> r.fixed,
              raised |-> FALSE]

\* what subprocess.run(["npm", "install", module]) can do: exit 0, exit non-zero,
\* raise (TimeoutExpired, OSError)
NpmOutcomes == {"exit_0", "exit_nonzero", "raises"}

\* a fix_missing_module that takes every installer run that ends for a success
fix_missing_module_lenient(error, npm, fixed) ==
    IF npm \in {"exit_0", "exit_nonzero"}
    THEN [applied |-> TRUE, fixed |-> fixed \cup {error.id}, raised |-> FALSE]
    ELSE [applied |-> FALSE, fixed |-> fixed, raised |-> FALSE]

\* fix_missing_module, given what the installer does.  raised tells whether an
\* exception leaves the method: the except clause returns False instead.
fix_missing_module(error, npm, fixed) ==
    IF npm = "exit_0"
    THEN [applied |-> TRUE, fixed |-> fixed \cup {error.id}, raised |-> FALSE]
    ELSE [applied |-> FALSE, fixed |-> fixed, raised |-> FALSE]

\* the entries of a tsconfig.json
NoEmitTrue == "\"noEmit\": true"
NoEmitFalse == "\"noEmit\": false"

\* content.replace('"noEmit": true', '"noEmit": false')
ReplaceNoEmit(content) ==
    [i \in 1..Len(content) |-> IF content[i] = NoEmitTrue THEN NoEmitFalse ELSE content[i]]

\* a fix_tsconfig_no_emit that looks for the noEmit entry, whatever its value
fix_tsconfig_no_emit_keyed(error, tc, fixed) ==
    IF ~tc[error.app].exists
    THEN [applied |-> FALSE, tsconfig |-> tc, fixed |-> fixed]
    ELSE IF {NoEmitTrue, NoEmitFalse} \cap RangeOf(tc[error.app].content) # {}
    THEN [applied  |-> TRUE,
          tsconfig |-> [tc EXCEPT ![error.app].content = ReplaceNoEmit(@)],
          fixed    |-> fixed \cup {error.id}]
    ELSE [applied |-> FALSE, tsconfig |-> tc, fixed |-> fixed]

\* fix_tsconfig_no_emit on the tsconfig files tc
fix_tsconfig_no_emit(error, tc, fixed) ==
    IF ~tc[error.app].exists
    THEN [applied |-> FALSE, tsconfig |-> tc, fixed |-> fixed]
    ELSE IF NoEmitTrue \in RangeOf(tc[error.app].content)
    THEN [applied  |-> TRUE,
          tsconfig |-> [tc EXCEPT ![error.app].content = ReplaceNoEmit(@)],
          fixed    |-> fixed \cup {error.id}]
    ELSE [applied |-> FALSE, tsconfig |-> tc, fixed |-> fixed]

-----------------------------------------------------------------------------
(* restart_service *)

\* app_dir_name of restart_service
AppDirName(app) == IF app = "container" THEN app ELSE app \o "-app"

\* pkill -f "webpack.*<app_dir_name>": the running build processes whose command
\* line names the directory (no directory name of frontend_apps contains another)
Killed(app_dir_name, pr) == {d \in pr : d = app_dir_name}

\* restart_service(app) on the logs lg and the processes pr.  open(log_file, 'w')
\* raises when the directory frontend/<app_dir_name> does not exist, which the
\* except clause turns into False: raised tells whether an exception leaves
\* the method.
restart_service(app, lg, pr) ==
    LET app_dir_name == AppDirName(app)
        killed       == Killed(app_dir_name, pr)
    IN  IF app_dir_name \in DOMAIN lg
        THEN [ok |-> TRUE, killed |-> killed,
              truncated |-> LogFileOf(app_dir_name),
              logs  |-> [lg EXCEPT ![app_dir_name] = [exists |-> TRUE, content |-> <<>>]],
              procs |-> (pr \ killed) \cup {app_dir_name},
              raised |-> FALSE]
        ELSE [ok |-> FALSE, killed |-> killed, truncated |-> "",
              logs |-> lg, procs |-> pr \ killed, raised |-> FALSE]

-----------------------------------------------------------------------------
(* The runtime adapter *)

\* what the browser session of one cycle can yield: raises is a failure to launch,
\* navigate or evaluate; data is what window.ErrorLogger.getErrors() returns
RuntimeOutcomes ==
    { [raises |-> TRUE,  data |-> <<>>],
      [raises |-> FALSE, data |-> <<[id |-> "e1", message |-> "boom"],
                                    [message |-> "no id"],
                                    [id |-> "e1", message |-> "boom again"]>>] }

\* f"runtime:{error.get('id', '')}"
RuntimeId(error) ==
    "runtime:" \o (IF "id" \in DOMAIN error THEN error.id ELSE "")

\* "if error_id not in self.seen_errors" of get_runtime_errors
IsNewRuntime(error_id, seen) == error_id \notin seen

\* the loop of get_runtime_errors: acc is [errors, seen]
RECURSIVE ScanRuntime(_, _)
ScanRuntime(data, acc) ==
    IF data = <<>> THEN acc
    ELSE LET error_id == RuntimeId(data[1])
         IN  ScanRuntime(Tail(data),
                IF IsNewRuntime(error_id, acc.seen)
                THEN [errors |-> Append(acc.errors,
                                   [type |-> "runtime", data |-> data[1], id |-> error_id]),
                      seen   |-> acc.seen \cup {error_id}]
                ELSE acc)

\* get_runtime_errors: the whole body is in a try whose except clause returns
\* what was collected, so that nothing is raised to the caller
get_runtime_errors(outcome, seen) ==
    IF outcome.raises THEN [errors |-> <<>>, seen |-> seen, raised |-> FALSE]
    ELSE LET r == ScanRuntime(outcome.data, [errors |-> <<>>, seen |-> seen])
         IN  [errors |-> r.errors, seen |-> r.seen, raised |-> FALSE]

\* the history emitted after the adapter returned errors: a count per fingerprint
RECURSIVE Emit(_, _)
Emit(em, errors) ==
    IF errors = <<>> THEN em
    ELSE LET id == errors[1].id
         IN  Emit([x \in DOMAIN em \cup {id} |->
                     (IF x \in DOMAIN em THEN em[x] ELSE 0) + (IF x = id THEN 1 ELSE 0)],
                  Tail(errors))

-----------------------------------------------------------------------------
(* The state machine *)

\* what requests.get(url, timeout=3) can do for one service
Responses ==
    { [raises |-> FALSE, status_code |-> HTTP_OK],
      [raises |-> FALSE, status_code |-> 503],
      [raises |-> TRUE,  status_code |-> 0] }

\* entries of a tsconfig.json other than the noEmit flag
TsconfigRest == <<"\"strict\": true">>

\* frontend/container/src/Foo.tsx with a shared-ui-lib import one level short and
\* an unannotated parameter
SourceBroken ==
    << <<"import", "{", "Button", "}", "from", "\"", "../", "shared-ui-lib", "\"", ";">>,
       <<"const", "f", "=", "(", "x", ")", "=>", "x", ".", "y", ";">> >>

\* the same file with the import and the annotation in place
SourceFixed ==
    << <<"import", "{", "Button", "}", "from", "'", "../", "../", "shared-ui-lib", "'", ";">>,
       <<"const", "f", "=", "(", "x", ":", "any", ")", "=>", "obj", ".", "y", ";">> >>

\* the working trees the monitor is started on: container's tsconfig.json and
\* the lines of its Foo.tsx
Trees ==
    { [tsconfig |-> [exists |-> TRUE, content |-> TsconfigRest \o <<NoEmitTrue>>],
       lines    |-> SourceBroken],
      [tsconfig |-> [exists |-> TRUE, content |-> TsconfigRest \o <<NoEmitFalse>>],
       lines    |-> SourceFixed],
      [tsconfig |-> [exists |-> FALSE, content |-> <<>>],
       lines    |-> SourceBroken] }

Apps == RangeOf(frontend_apps)

Init ==
    /\ pc = "start"
    /\ max_iterations \in 0..MaxIterations
    /\ iteration = 0
    /\ seen_errors = {}
    /\ fixed_errors = {}
    /\ total_fixes = 0
    /\ fixes_applied = 0
    /\ webpack_errors = <<>>
    /\ success = FALSE
    /\ exit_code = -1
    /\ health \in [RangeOf(services) -> Responses]
    /\ logs = [app \in Apps |-> [exists |-> FALSE, content |-> <<>>]]
    /\ \E tree \in Trees :
          /\ tsconfig = [app \in Apps |->
                           IF app = "container" THEN tree.tsconfig
                           ELSE [exists |-> TRUE,
                                 content |-> TsconfigRest \o <<NoEmitTrue>>]]
          /\ files = (PathStr(SourceFile) :> tree.lines)
    /\ procs = Apps
    /\ writes = 0
    /\ emitted = [x \in {} |-> 0]
    /\ calls = <<>>
    /\ restarts = <<>>

\* a health check satisfied by one healthy service
check_services_health_any(h) ==
    \E i \in 1..Len(services) :
        ~h[services[i]].raises /\ h[services[i]].status_code = HTTP_OK

\* check_services_health
check_services_health(h) ==
    \A i \in 1..Len(services) :
        ~h[services[i]].raises /\ h[services[i]].status_code = HTTP_OK

\* run(), lines 588-596, and for a failed check main's sys.exit
HealthCheck ==
    /\ pc = "start"
    /\ IF check_services_health(health)
       THEN /\ pc' = "loop"
            /\ UNCHANGED <<success, exit_code>>
       ELSE /\ pc' = "done"
            /\ success' = FALSE
            /\ exit_code' = 1
    /\ UNCHANGED <<max_iterations, iteration, seen_errors, fixed_errors, total_fixes,
                   fixes_applied, webpack_errors, health, logs, tsconfig, files,
                   procs, writes, emitted, calls, restarts>>

\* "while self.iteration < self.max_iterations: self.iteration += 1"
WhileTest ==
    /\ pc = "loop"
    /\ IF iteration < max_iterations
       THEN pc' = "scan" /\ iteration' = iteration + 1
       ELSE pc' = "summary" /\ UNCHANGED iteration
    /\ UNCHANGED <<max_iterations, seen_errors, fixed_errors, total_fixes,
                   fixes_applied, webpack_errors, success, exit_code, health, logs,
                   tsconfig, files, procs, writes, emitted, calls, restarts>>

\* fixes_applied = 0; webpack_errors = get_webpack_errors(), the adapter
\* consulting the set seen; the logs in unreadable cannot be read in this scan
ScanWith(seen, unreadable) ==
    /\ pc = "scan"
    /\ LET r == get_webpack_errors(logs, unreadable, seen)
       IN  /\ webpack_errors' = r.errors
           /\ seen_errors' = seen_errors \cup r.seen
           /\ emitted' = Emit(emitted, r.errors)
    /\ fixes_applied' = 0
    /\ pc' = "fix"
    /\ UNCHANGED <<max_iterations, iteration, fixed_errors, total_fixes, success,
                   exit_code, health, logs, tsconfig, files, procs, writes, calls,
                   restarts>>

\* the scan of a cycle: any of the existing logs may fail to open or to read
Scan(seen) ==
    \E unreadable \in SUBSET {app \in Apps : logs[app].exists} :
        ScanWith(seen, unreadable)

\* a scan that does not remember the fingerprints of earlier scans
ScanStep_forgetful == Scan({})

\* run_fix_cycle, lines 521-527
ScanStep == Scan(seen_errors)

\* "if error["id"] in self.fixed_errors: continue"
AlreadyFixed(error, fixed) == error.id \in fixed

\* what "with open(path, 'w') as f: f.write(...)" does in a process that runs
\* on: the file is written; or open raises (the file is untouched); or open has
\* truncated the file and the write raises (disk full)
WriteOutcomes == {"written", "open_raises", "write_raises"}

\* the same, and the process being killed after open has truncated the file
IoOutcomes == WriteOutcomes \cup {"crash"}

\* the strategy of run_fix_cycle for error when its write succeeds, given what
\* npm and stat() do: [applied, fixed, files, tsconfig, raised]
StrategyWritten(error, npm, stat) ==
    IF error.type = "missing_module"
    THEN LET r == fix_missing_module(error, npm, fixed_errors)
         IN  [applied |-> r.applied, fixed |-> r.fixed, files |-> files,
              tsconfig |-> tsconfig, raised |-> r.raised]
    ELSE IF error.type = "tsconfig_no_emit"
    THEN LET r == fix_tsconfig_no_emit(error, tsconfig, fixed_errors)
         IN  [applied |-> r.applied, fixed |-> r.fixed, files |-> files,
              tsconfig |-> r.tsconfig, raised |-> FALSE]
    ELSE LET r == fix_typescript_error(error, stat, files, fixed_errors)
         IN  [applied |-> r.applied, fixed |-> r.fixed, files |-> r.files,
              tsconfig |-> tsconfig, raised |-> r.raised]

\* the working tree after open(path, 'w') of the file the strategy for error
\* writes: the file is empty
Truncated(error) ==
    IF error.type = "tsconfig_no_emit"
    THEN [files |-> files,
          tsconfig |-> [tsconfig EXCEPT ![error.app].content = <<>>]]
    ELSE [files |-> [files EXCEPT ![PathStr(LocateFile(error, files))] = <<>>],
          tsconfig |-> tsconfig]

\* what becomes of the result r of a strategy whose write succeeds when the
\* write does io.  Only a strategy that edits a file and got as far as its
\* write is concerned: the write is the last statement before
\* fixed_errors.add and "return True", and the except clause of the edit
\* returns False.  io and complete are for the record of the call: the outcome
\* of the write, if there was one, and the tree a completed write leaves.
WriteResult(r, error, io) ==
    LET wrote == error.type # "missing_module" /\ r.applied
        done  == ~wrote \/ io = "written"
        kept  == ~wrote \/ io \in {"written", "open_raises"}
    IN  [applied  |-> IF done THEN r.applied ELSE FALSE,
         fixed    |-> IF done THEN r.fixed ELSE fixed_errors,
         files    |-> IF done THEN r.files
                      ELSE IF kept THEN files ELSE Truncated(error).files,
         tsconfig |-> IF done THEN r.tsconfig
                      ELSE IF kept THEN tsconfig ELSE Truncated(error).tsconfig,
         raised   |-> IF done THEN r.raised ELSE FALSE,
         crashed  |-> wrote /\ io = "crash",
         io       |-> IF wrote THEN io ELSE "none",
         complete |-> [files |-> r.files, tsconfig |-> r.tsconfig]]

\* the strategy of run_fix_cycle for error, given what npm, stat() and the
\* write do: [applied, fixed, files, tsconfig, raised, crashed, io, complete]
Strategy(error, npm, stat, io) ==
    WriteResult(StrategyWritten(error, npm, stat), error, io)

\* one pass of "for error in webpack_errors"; check_fixed tells whether the
\* pass starts with the fixed_errors check.  An exception that leaves a strategy
\* or the restart is caught nowhere in run_fix_cycle, run or main: the process
\* ends with a traceback, sys.exit is not reached.  The writes of the edits
\* complete in these runs.
ProcessError(check_fixed) ==
    /\ pc = "fix"
    /\ webpack_errors # <<>>
    /\ \E npm \in NpmOutcomes : \E stat \in StatOutcomes :
         LET error == Head(webpack_errors)
             r     == Strategy(error, npm, stat, "written")
             rs    == restart_service(error.app, logs, procs)
         IN  IF check_fixed /\ AlreadyFixed(error, fixed_errors)
             THEN UNCHANGED <<pc, fixed_errors, files, tsconfig, fixes_applied,
                              logs, procs, calls, restarts>>
             ELSE /\ pc' = IF r.raised \/ (r.applied /\ rs.raised)
                           THEN "aborted" ELSE pc
                  /\ fixed_errors' = r.fixed
                  /\ files' = r.files
                  /\ tsconfig' = r.tsconfig
                  /\ calls' = Append(calls,
                        [id |-> error.id, type |-> error.type, app |-> error.app,
                         cycle |-> iteration, in_fixed |-> error.id \in fixed_errors,
                         applied |-> r.applied,
                         npm |-> IF error.type = "missing_module" THEN npm
                                 ELSE "none",
                         target |-> IF error.type = "missing_module" THEN error.module
                                    ELSE IF error.type = "typescript"
                                         THEN PathStr(LocateFile(error, files))
                                    ELSE "tsconfig.json",
                         cwd |-> PathStr(FrontendDir(error.app))])
                  /\ IF r.applied
                     THEN /\ fixes_applied' = fixes_applied + 1
                          /\ logs' = rs.logs
                          /\ procs' = rs.procs
                          /\ restarts' = Append(restarts,
                                [app |-> error.app, cycle |-> iteration,
                                 for |-> error.id, dir |-> AppDirName(error.app),
                                 killed |-> rs.killed, truncated |-> rs.truncated,
                                 ok |-> rs.ok])
                     ELSE UNCHANGED <<fixes_applied, logs, procs, restarts>>
    /\ webpack_errors' = Tail(webpack_errors)
    /\ UNCHANGED <<max_iterations, iteration, seen_errors, total_fixes, success,
                   exit_code, health, writes, emitted>>

\* run_fix_cycle, lines 532-549
FixStep == ProcessError(TRUE)

\* a runtime check that takes the runtime errors it reports for fixed
RuntimeStep_remediating ==
    /\ pc = "fix"
    /\ webpack_errors = <<>>
    /\ \E outcome \in RuntimeOutcomes :
         LET r == get_runtime_errors(outcome, seen_errors)
         IN  /\ seen_errors' = r.seen
             /\ emitted' = Emit(emitted, r.errors)
             /\ fixed_errors' = fixed_errors \cup {r.errors[i].id : i \in 1..Len(r.errors)}
             /\ fixes_applied' = fixes_applied + Len(r.errors)
    /\ pc' = "cycle_end"
    /\ UNCHANGED <<max_iterations, iteration, total_fixes, webpack_errors, success,
                   exit_code, health, logs, tsconfig, files, procs, writes, calls,
                   restarts>>

\* run_fix_cycle, lines 551-580: the runtime check, then "return fixes_applied"
RuntimeStep ==
    /\ pc = "fix"
    /\ webpack_errors = <<>>
    /\ \E outcome \in RuntimeOutcomes :
         LET r == get_runtime_errors(outcome, seen_errors)
         IN  /\ seen_errors' = r.seen
             /\ emitted' = Emit(emitted, r.errors)
             /\ pc' = IF r.raised THEN "aborted" ELSE "cycle_end"
    /\ UNCHANGED <<max_iterations, iteration, fixed_errors, total_fixes, fixes_applied,
                   webpack_errors, success, exit_code, health, logs, tsconfig, files,
                   procs, writes, calls, restarts>>

\* a cycle that keeps no memory of earlier cycles: the adapter starts from an
\* empty seen set and the loop does not look at fixed_errors
run_fix_cycle_memoryless == Scan({}) \/ ProcessError(FALSE) \/ RuntimeStep

\* run_fix_cycle: its steps, in the order pc imposes
run_fix_cycle == ScanStep \/ FixStep \/ RuntimeStep

\* a stability test that asks for one more cycle
Stable_late(it) == it > StableIterations

\* "if self.iteration >= 3" of run()
Stable(it) == it >= StableIterations

\* a result that does not look at the number of fixes
RunResult_always(total) == total >= 0

\* "return total_fixes > 0" of run()
RunResult(total) == total > 0

\* run(), lines 602-614: after a cycle
CycleEnd ==
    /\ pc = "cycle_end"
    /\ total_fixes' = total_fixes + fixes_applied
    /\ IF fixes_applied > 0
       THEN pc' = "sleep"
       ELSE IF Stable(iteration)
            THEN pc' = "summary"
            ELSE pc' = "sleep"
    /\ UNCHANGED <<max_iterations, iteration, seen_errors, fixed_errors, fixes_applied,
                   webpack_errors, success, exit_code, health, logs, tsconfig, files,
                   procs, writes, emitted, calls, restarts>>

\* "await asyncio.sleep(self.check_interval)" returns
Wake ==
    /\ pc = "sleep"
    /\ pc' = "loop"
    /\ UNCHANGED <<max_iterations, iteration, seen_errors, fixed_errors, total_fixes,
                   fixes_applied, webpack_errors, success, exit_code, health, logs,
                   tsconfig, files, procs, writes, emitted, calls, restarts>>

\* run(), lines 616-624, and main's sys.exit(0 if success else 1)
Summary ==
    /\ pc = "summary"
    /\ pc' = "done"
    /\ success' = RunResult(total_fixes)
    /\ exit_code' = IF RunResult(total_fixes) THEN 0 ELSE 1
    /\ UNCHANGED <<max_iterations, iteration, seen_errors, fixed_errors, total_fixes,
                   fixes_applied, webpack_errors, health, logs, tsconfig, files,
                   procs, writes, emitted, calls, restarts>>

\* environment: the build of a running service appends a chunk to its log, before
\* the first cycle or between two cycles
LogWrite ==
    /\ pc = "loop"
    /\ writes < MaxWrites
    /\ \E app \in procs : \E chunk \in AppChunks(app) \ RangeOf(logs[app].content) :
         logs' = [logs EXCEPT ![app] = [exists |-> TRUE,
                                        content |-> Append(@.content, chunk)]]
    /\ writes' = writes + 1
    /\ UNCHANGED <<pc, max_iterations, iteration, seen_errors, fixed_errors,
                   total_fixes, fixes_applied, webpack_errors, success, exit_code,
                   health, tsconfig, files, procs, emitted, calls, restarts>>

Next ==
    \/ HealthCheck
    \/ WhileTest
    \/ run_fix_cycle
    \/ CycleEnd
    \/ Wake
    \/ Summary
    \/ LogWrite

Spec == Init /\ [][Next]_vars

\* the steps of the monitor itself, which the event loop keeps running: run()
\* is the one task of asyncio.run(main()) and every await in it returns (the
\* sleep after check_interval seconds, the browser calls on return or timeout)
Program == HealthCheck \/ WhileTest \/ run_fix_cycle \/ CycleEnd \/ Wake \/ Summary

\* a run whose pre-flight check passes, of at most two cycles
InitFair == Init /\ check_services_health(health) /\ max_iterations \in 1..2

SpecFair == InitFair /\ [][Next]_vars /\ WF_vars(Program)

-----------------------------------------------------------------------------
(* The build-log adapter on its own: one call of get_webpack_errors on logs   *)
(* and a seen_errors set drawn from bounded sets.                             *)

\* longest log content, in chunks
MaxLogLen == 3

\* the sequences over S of length up to n
SeqsUpTo(S, n) == UNION {[1..k -> S] : k \in 0..n}

\* the chunks a log of app is made of: the same missing module with and without
\* the build's "ERROR in" line (at two locations), the no-output error as
\* ts-loader alone prints it, and a diagnostic of ./src/Foo.tsx
ScanChunks(app) ==
    { ModuleChunk(TRUE, "lodash", PathStr(FrontendDir(app) \o <<"src">>)),
      ModuleChunk(FALSE, "lodash", PathStr(FrontendDir(app) \o <<"src", "lib">>)),
      NoOutputChunk(FALSE, PathStr(FrontendDir(app) \o <<"src", "index">>)),
      TsChunk(<<".", "src", "Foo.tsx">>, 2, 1, "7006", MsgImplicitAny) }

\* the states of the log file of app
LogFiles(app) ==
    { [exists |-> FALSE, content |-> <<>>] }
    \cup { [exists |-> TRUE, content |-> c] : c \in SeqsUpTo(ScanChunks(app), MaxLogLen) }

\* an ErrorFixer in its first cycle, about to scan; the fingerprints already in
\* seen_errors were returned by an earlier scan
InitScan ==
    /\ pc = "scan"
    /\ max_iterations = 1
    /\ iteration = 1
    /\ seen_errors \in {{}, {"missing:lodash"}}
    /\ emitted = [id \in seen_errors |-> 1]
    /\ fixed_errors = {}
    /\ total_fixes = 0
    /\ fixes_applied = 0
    /\ webpack_errors = <<>>
    /\ success = FALSE
    /\ exit_code = -1
    /\ health = [s \in RangeOf(services) |-> [raises |-> FALSE, status_code |-> HTTP_OK]]
    /\ \E lc \in LogFiles("container") : \E ls \in LogFiles("settings-app") :
          logs = [app \in Apps |-> IF app = "container" THEN lc
                                   ELSE IF app = "settings-app" THEN ls
                                   ELSE [exists |-> FALSE, content |-> <<>>]]
    /\ tsconfig = [app \in Apps |->
                     [exists |-> TRUE, content |-> TsconfigRest \o <<NoEmitTrue>>]]
    /\ files = (PathStr(SourceFile) :> SourceBroken)
    /\ procs = Apps
    /\ writes = 0
    /\ calls = <<>>
    /\ restarts = <<>>

\* get_webpack_errors() with every log readable
ReadScan == ScanWith(seen_errors, {})

NextScan == ReadScan

SpecScan == InitScan /\ [][NextScan]_vars

-----------------------------------------------------------------------------
(* The fix strategies on their own: one event, and the strategy of            *)
(* run_fix_cycle for it called up to twice in a row on a working tree drawn   *)
(* from bounded sets.                                                         *)

\* largest number of "../" in the import of a source file
MaxUps == 2

\* largest number of entries of a tsconfig.json
MaxEntries == 2

\* how often the strategy is called in a row
Applications == 2

\* frontend/container/src/components/Foo.tsx and frontend/container/Foo.tsx
DeepFile == FrontendDir("container") \o <<"src", "components", "Foo.tsx">>
FlatFile == FrontendDir("container") \o <<"Foo.tsx">>

\* import { Button } from <q><n times ../><lib><q>;
ImportLine(q, n, lib) ==
    <<"import", "{", "Button", "}", "from", q>> \o Repeat("../", n) \o <<lib, q, ";">>

ImportLines ==
    {ImportLine(q, n, lib) : q \in Quotes, n \in 0..MaxUps, lib \in {"shared-ui-lib", "react"}}

\* second lines: a parameter used twice, an annotated parameter, a call of
\* apply, a parameter used once
CodeLines ==
    { <<"const", "f", "=", "(", "x", ")", "=>", "x", ".", "y", ";">>,
      <<"const", "f", "=", "(", "x", ":", "any", ")", "=>", "obj", ".", "y", ";">>,
      <<"fn", ".", "apply", "(", "this", ",", "args", ")", ";">>,
      <<"const", "f", "=", "(", "x", ")", "=>", "y", ";">> }

\* "Property 'y' does not exist on type"
MsgNoProperty == <<"Property", "'", "y", "'", "does", "not", "exist", "on", "type">>

\* "Argument of type"
MsgMismatch == <<"Argument", "of", "type">>

\* "Parameter '$x' implicitly ...": a name \w+ does not match
MsgNoParam == <<"Parameter", "'", "$x", "'", "implicitly", "has", "an", "'", "any", "'", "type.">>

\* the diagnostics of the events: <<code digits, message>>
CodeMessages ==
    { <<"2307", MsgNoModule>>, <<"7006", MsgImplicitAny>>, <<"7006", MsgNoParam>>,
      <<"2339", MsgNoProperty>>, <<"2345", MsgMismatch>>, <<"9999", MsgMismatch>> }

\* the states of container's tsconfig.json
TsconfigFiles ==
    { [exists |-> FALSE, content |-> <<>>] }
    \cup { [exists |-> TRUE, content |-> c] :
             c \in SeqsUpTo({NoEmitTrue, NoEmitFalse, "\"noEmit\":true", "\"strict\": true"},
                            MaxEntries) }

\* an ErrorFixer holding one event of container, on a working tree
InitFix ==
    /\ pc = "apply"
    /\ max_iterations = 1
    /\ iteration = 1
    /\ seen_errors = {}
    /\ emitted = [x \in {} |-> 0]
    /\ fixed_errors = {}
    /\ total_fixes = 0
    /\ fixes_applied = 0
    /\ success = FALSE
    /\ exit_code = -1
    /\ health = [s \in RangeOf(services) |-> [raises |-> FALSE, status_code |-> HTTP_OK]]
    /\ logs = [app \in Apps |-> [exists |-> FALSE, content |-> <<>>]]
    /\ procs = Apps
    /\ writes = 0
    /\ calls = <<>>
    /\ restarts = <<>>
    /\ \/ \E file \in {SourceFile, DeepFile, FlatFile} :
          \E il \in ImportLines : \E cl \in CodeLines :
          \E cm \in CodeMessages : \E n \in 0..3 :
             /\ webpack_errors = <<ErrorOf("container", TsChunk(file, n, 1, cm[1], cm[2]))>>
             /\ files = (PathStr(file) :> <<il, cl>>)
             /\ tsconfig = [app \in Apps |->
                              [exists |-> TRUE, content |-> TsconfigRest \o <<NoEmitTrue>>]]
       \/ \E tc \in TsconfigFiles :
             /\ webpack_errors = <<ErrorOf("container",
                     NoOutputChunk(TRUE, PathStr(FrontendDir("container") \o <<"src", "index">>)))>>
             /\ files = (PathStr(SourceFile) :> SourceBroken)
             /\ tsconfig = [app \in Apps |->
                              IF app = "container" THEN tc
                              ELSE [exists |-> TRUE,
                                    content |-> TsconfigRest \o <<NoEmitTrue>>]]
       \/ /\ webpack_errors = <<ErrorOf("container",
                     ModuleChunk(TRUE, "lodash", PathStr(FrontendDir("container") \o <<"src">>)))>>
          /\ files = (PathStr(SourceFile) :> SourceBroken)
          /\ tsconfig = [app \in Apps |->
                           [exists |-> TRUE, content |-> TsconfigRest \o <<NoEmitTrue>>]]

\* one call of the strategy for the event, as run_fix_cycle dispatches it, the
\* paths of the tree being searchable
ApplyStrategy ==
    /\ pc = "apply"
    /\ Len(calls) < Applications
    /\ \E npm \in NpmOutcomes : \E io \in IoOutcomes :
         LET error == webpack_errors[1]
             r     == Strategy(error, npm, "answers", io)
         IN  /\ pc' = IF r.crashed THEN "crashed" ELSE pc
             /\ fixed_errors' = r.fixed
             /\ files' = r.files
             /\ tsconfig' = r.tsconfig
             /\ calls' = Append(calls,
                   [type |-> error.type, applied |-> r.applied,
                    npm |-> IF error.type = "missing_module" THEN npm ELSE "none",
                    io |-> r.io,
                    file |-> IF error.type = "typescript"
                             THEN LocateFile(error, files) ELSE <<>>,
                    before |-> [files |-> files, tsconfig |-> tsconfig,
                                fixed |-> fixed_errors],
                    after  |-> [files |-> r.files, tsconfig |-> r.tsconfig,
                                fixed |-> r.fixed],
                    complete |-> r.complete])
    /\ UNCHANGED <<max_iterations, iteration, seen_errors, total_fixes,
                   fixes_applied, webpack_errors, success, exit_code, health, logs,
                   procs, writes, emitted, restarts>>

NextFix == ApplyStrategy

SpecFix == InitFix /\ [][NextFix]_vars

-----------------------------------------------------------------------------
(* The loop "for error in webpack_errors" call by call: a strategy call and   *)
(* a restart_service call each start and return in steps of their own.  In    *)
(* these runs a call record carries returned, FALSE while the call is under   *)
(* way.                                                                       *)

\* longest list of events the scan has returned
MaxEvents == 3

\* events a scan can return: two of container that restart it, one of another
\* service, one source edit
LoopEvents ==
    { ErrorOf("container", ModuleChunk(TRUE, "lodash", PathStr(FrontendDir("container") \o <<"src">>))),
      ErrorOf("container", NoOutputChunk(TRUE, PathStr(FrontendDir("container") \o <<"src", "index">>))),
      ErrorOf("settings-app", ModuleChunk(TRUE, "axios", PathStr(FrontendDir("settings-app") \o <<"src">>))),
      ErrorOf("container", TsChunk(SourceFile, 1, 1, "2307", MsgNoModule)) }

\* run_fix_cycle with the list of events just returned by the scan
InitLoop ==
    /\ pc = "fix"
    /\ max_iterations = 1
    /\ iteration = 1
    /\ webpack_errors \in {es \in SeqsUpTo(LoopEvents, MaxEvents) :
                             \A i \in 1..Len(es) : \A j \in 1..Len(es) :
                                 i # j => es[i] # es[j]}
    /\ seen_errors = {webpack_errors[i].id : i \in 1..Len(webpack_errors)}
    /\ emitted = [id \in seen_errors |-> 1]
    /\ fixed_errors = {}
    /\ total_fixes = 0
    /\ fixes_applied = 0
    /\ success = FALSE
    /\ exit_code = -1
    /\ health = [s \in RangeOf(services) |-> [raises |-> FALSE, status_code |-> HTTP_OK]]
    /\ logs = [app \in Apps |-> [exists |-> app = "container", content |-> <<>>]]
    /\ tsconfig = [app \in Apps |->
                     [exists |-> TRUE, content |-> TsconfigRest \o <<NoEmitTrue>>]]
    /\ files = (PathStr(SourceFile) :> SourceBroken)
    /\ procs = Apps
    /\ writes = 0
    /\ calls = <<>>
    /\ restarts = <<>>

\* "if error["id"] in self.fixed_errors: continue", else the call of the
\* strategy starts: control is in the strategy
StrategyCall ==
    /\ pc = "fix"
    /\ webpack_errors # <<>>
    /\ LET error == Head(webpack_errors)
       IN  IF AlreadyFixed(error, fixed_errors)
           THEN /\ webpack_errors' = Tail(webpack_errors)
                /\ UNCHANGED <<pc, calls>>
           ELSE /\ calls' = Append(calls, [id |-> error.id, type |-> error.type,
                                           app |-> error.app, returned |-> FALSE,
                                           applied |-> FALSE])
                /\ pc' = "strategy"
                /\ UNCHANGED webpack_errors
    /\ UNCHANGED <<max_iterations, iteration, seen_errors, fixed_errors, total_fixes,
                   fixes_applied, success, exit_code, health, logs, tsconfig, files,
                   procs, writes, emitted, restarts>>

\* the strategy returns (the strategies are plain methods: they run to their
\* return statement); on True "fixes_applied += 1" and the restart is next
StrategyReturn ==
    /\ pc = "strategy"
    /\ \E npm \in NpmOutcomes : \E stat \in StatOutcomes : \E io \in WriteOutcomes :
         LET error == Head(webpack_errors)
             r     == Strategy(error, npm, stat, io)
         IN  /\ fixed_errors' = r.fixed
             /\ files' = r.files
             /\ tsconfig' = r.tsconfig
             /\ calls' = [calls EXCEPT ![Len(calls)].returned = ~r.raised,
                                       ![Len(calls)].applied = r.applied]
             /\ fixes_applied' = fixes_applied + (IF r.applied THEN 1 ELSE 0)
             /\ pc' = IF r.raised THEN "aborted"
                      ELSE IF r.applied THEN "call_restart" ELSE "fix"
             /\ webpack_errors' = IF r.applied THEN webpack_errors
                                  ELSE Tail(webpack_errors)
    /\ UNCHANGED <<max_iterations, iteration, seen_errors, total_fixes, success,
                   exit_code, health, logs, procs, writes, emitted, restarts>>

\* a restart that is started and not waited for
RestartCall_detached ==
    /\ pc = "call_restart"
    /\ restarts' = Append(restarts, [app |-> Head(webpack_errors).app,
                                     for |-> Head(webpack_errors).id,
                                     returned |-> FALSE, ok |-> FALSE])
    /\ pc' = "fix"
    /\ webpack_errors' = Tail(webpack_errors)
    /\ UNCHANGED <<max_iterations, iteration, seen_errors, fixed_errors, total_fixes,
                   fixes_applied, success, exit_code, health, logs, tsconfig, files,
                   procs, writes, emitted, calls>>

\* "await self.restart_service(error["app"])": the call starts and the loop
\* waits for it
RestartCall ==
    /\ pc = "call_restart"
    /\ restarts' = Append(restarts, [app |-> Head(webpack_errors).app,
                                     for |-> Head(webpack_errors).id,
                                     returned |-> FALSE, ok |-> FALSE])
    /\ pc' = "restart"
    /\ UNCHANGED <<max_iterations, iteration, seen_errors, fixed_errors, total_fixes,
                   fixes_applied, webpack_errors, success, exit_code, health, logs,
                   tsconfig, files, procs, writes, emitted, calls>>

\* restart_service has run pkill, time.sleep(2) and Popen, none of which yields
\* to the event loop, and returns: the loop goes on with the next event
RestartReturn ==
    /\ pc = "restart"
    /\ LET rs == restart_service(Head(webpack_errors).app, logs, procs)
       IN  /\ logs' = rs.logs
           /\ procs' = rs.procs
           /\ restarts' = [restarts EXCEPT ![Len(restarts)].returned = ~rs.raised,
                                           ![Len(restarts)].ok = rs.ok]
           /\ pc' = IF rs.raised THEN "aborted" ELSE "fix"
    /\ webpack_errors' = Tail(webpack_errors)
    /\ UNCHANGED <<max_iterations, iteration, seen_errors, fixed_errors, total_fixes,
                   fixes_applied, success, exit_code, health, tsconfig, files, writes,
                   emitted, calls>>

NextLoop == StrategyCall \/ StrategyReturn \/ RestartCall \/ RestartReturn

SpecLoop == InitLoop /\ [][NextLoop]_vars

-----------------------------------------------------------------------------
(* Properties *)

\* every configured service answers the health request with status 200
Healthy ==
    \A s \in RangeOf(services) : ~health[s].raises /\ health[s].status_code = 200

\* the chunks of the logs, as they stand, whose fingerprint is id
StillLogged(id) ==
    \E app \in Apps : \E i \in 1..Len(logs[app].content) :
        /\ logs[app].exists
        /\ HasErrorIn(logs[app].content)
        /\ ErrorId(app, logs[app].content[i]) = id

\* number of fixes applied in cycle c
FixesIn(c) == Cardinality({i \in 1..Len(calls) : calls[i].cycle = c /\ calls[i].applied})

\* the strategy invocations for fingerprint id
CallsFor(id) == {i \in 1..Len(calls) : calls[i].id = id}

\* C1: deduplication across cycles.  Over any sequence of cycles that re-read
\* the logs in full, the build-log and the runtime adapter return each
\* fingerprint as a new event at most once in the run.
C1_EmittedAtMostOnce == \A id \in DOMAIN emitted : emitted[id] <= 1

\* a second scan has run over a log that still holds an error returned before
C1_Witness ==
    /\ pc = "fix"
    /\ iteration >= 2
    /\ \E id \in DOMAIN emitted : emitted[id] = 1 /\ StillLogged(id)
    /\ \E id \in DOMAIN emitted : id = "runtime:e1"

\* C2: no re-fix.  No fix strategy is ever invoked for an event whose
\* fingerprint is in fixed_errors at the time of the call, also when the log
\* still holds the error in later cycles.
C2_NoRefix == \A i \in 1..Len(calls) : ~calls[i].in_fixed

\* two scans have seen missing:lodash, fixed in the first, and one install was called
C2_Witness ==
    /\ pc = "cycle_end"
    /\ iteration >= 2
    /\ "missing:lodash" \in fixed_errors
    /\ StillLogged("missing:lodash")
    /\ Cardinality(CallsFor("missing:lodash")) = 1
    /\ \A i \in CallsFor("missing:lodash") : calls[i].cycle = 1

\* C3: stability termination.  A run that leaves the loop with fewer than
\* max_iterations cycles run has had three consecutive cycles without a fix
\* at its end.
C3_StableStopAfterThreeQuietCycles ==
    (pc = "summary" /\ iteration < max_iterations)
        => /\ iteration >= 3
           /\ \A c \in (iteration - 2)..iteration : FixesIn(c) = 0

\* no strategy has reported a fix so far
Quiet == \A i \in 1..Len(calls) : ~calls[i].applied

C5_FatalGate ==
    /\ ~Healthy =>
          /\ pc \in {"start", "done"}
          /\ iteration = 0
          /\ seen_errors = {} /\ fixed_errors = {}
          /\ calls = <<>> /\ restarts = <<>> /\ DOMAIN emitted = {}
          /\ pc = "done" => (~success /\ exit_code = 1)
    /\ (Healthy /\ pc = "done" /\ max_iterations >= 1) => iteration >= 1

\* the run ended at the gate: one service down, one answering 503, the others 200
C5_Witness ==
    /\ pc = "done"
    /\ max_iterations >= 1
    /\ \E s \in DOMAIN health : health[s].raises
    /\ \E s \in DOMAIN health : ~health[s].raises /\ health[s].status_code # HTTP_OK
    /\ \E s \in DOMAIN health : ~health[s].raises /\ health[s].status_code = HTTP_OK

\* the restarts of app issued in cycle c
RestartsIn(c, app) == {i \in 1..Len(restarts) : restarts[i].cycle = c /\ restarts[i].app = app}

\* app had a successful fix in cycle c
FixedIn(c, app) ==
    \E i \in 1..Len(calls) : calls[i].cycle = c /\ calls[i].app = app /\ calls[i].applied

\* C6: restart once per service per cycle.  In every cycle a service with at
\* least one successful fix is restarted exactly once, a service with none is
\* not restarted.
C6_RestartOncePerServicePerCycle ==
    \A c \in 1..iteration : \A app \in Apps :
        Cardinality(RestartsIn(c, app)) = IF FixedIn(c, app) THEN 1 ELSE 0

\* C7: restart targets the fixed service.  Every restart issued after a
\* successful fix of an event of service S terminates the build process of S,
\* truncates the log file the build-log adapter reads for S, and reports
\* success.
C7_RestartTargetsFixedService ==
    \A i \in 1..Len(restarts) :
        /\ restarts[i].ok
        /\ restarts[i].killed = {restarts[i].app}
        /\ restarts[i].truncated = LogFileOf(restarts[i].app)

C9_HealthyRunReportsSuccess ==
    (pc = "done" /\ Healthy) => (success /\ exit_code = 0)

\* C10: recording a fix.  After a strategy reported applied=true for an event,
\* the fingerprint of that event, as put into seen_errors, is in fixed_errors.
C10_FixRecordedUnderEventId ==
    \A i \in 1..Len(calls) : calls[i].applied => calls[i].id \in fixed_errors

\* the fingerprints the runtime adapter can form
RuntimeIds ==
    UNION {{RuntimeId(o.data[i]) : i \in 1..Len(o.data)} : o \in RuntimeOutcomes}

\* the events of the current cycle not yet handed to a strategy
Pending(id) ==
    pc = "fix" /\ \E i \in 1..Len(webpack_errors) : webpack_errors[i].id = id

\* C11: failure isolation.  No failure inside an adapter call, a strategy call or
\* a restart makes the run abort: whatever the installer, the file system, the
\* restart or the browser session do, every build-log event returned by a scan
\* is handed to its strategy unless it still waits in the cycle under way or is
\* already fixed, and the run never ends on an exception.
C11_FailureIsolation ==
    /\ pc # "aborted"
    /\ \A id \in DOMAIN emitted \ RuntimeIds :
          CallsFor(id) # {} \/ Pending(id) \/ id \in fixed_errors

\* the scan of the adapter has returned
Scanned == pc = "fix"

\* the match candidates of the logs: [app, chunk, gated], gated telling whether
\* the log holds the text "ERROR in"
Candidates ==
    UNION { { [app |-> app, chunk |-> logs[app].content[i],
               gated |-> HasErrorIn(logs[app].content)] :
                i \in 1..Len(logs[app].content) } :
            app \in {a \in Apps : logs[a].exists} }

\* the events just returned whose fingerprint is id
EventsWith(id) == {i \in 1..Len(webpack_errors) : webpack_errors[i].id = id}

\* C12: independent extraction of the three families.  After one scan, every
\* candidate of every family in a log has its fingerprint returned (in this
\* scan or, if it was in seen_errors, before), whatever else the file holds.
C12_IndependentExtraction ==
    Scanned =>
        \A c \in Candidates : ErrorId(c.app, c.chunk) \in DOMAIN emitted

\* C13: within-batch deduplication.  When one scan meets several candidates
\* with the same fingerprint, in one file or in different files, it returns at
\* most one event with that fingerprint, and over the run so far the
\* fingerprint of every candidate read was returned exactly once.
C13_OneEventPerFingerprint ==
    Scanned =>
        /\ \A i \in 1..Len(webpack_errors) :
              Cardinality(EventsWith(webpack_errors[i].id)) = 1
        /\ \A c \in Candidates :
              c.gated => /\ ErrorId(c.app, c.chunk) \in DOMAIN emitted
                         /\ emitted[ErrorId(c.app, c.chunk)] = 1

\* the new fingerprint missing:lodash had two candidates in container's log and
\* one in settings-app's log, and the scan returned one event
C13_Witness ==
    /\ Scanned
    /\ Cardinality({i \in 1..Len(logs["container"].content) :
                      ErrorId("container", logs["container"].content[i])
                        = "missing:lodash"}) >= 2
    /\ \E i \in 1..Len(logs["settings-app"].content) :
          ErrorId("settings-app", logs["settings-app"].content[i]) = "missing:lodash"
    /\ HasErrorIn(logs["settings-app"].content)
    /\ Cardinality(EventsWith("missing:lodash")) = 1

\* C14: fingerprint distinctness.  Two candidates found in the logs of two
\* different services never have the same fingerprint.
C14_FingerprintsDistinctAcrossServices ==
    Scanned =>
        \A c \in Candidates : \A d \in Candidates :
            c.app # d.app => ErrorId(c.app, c.chunk) # ErrorId(d.app, d.chunk)

\* the restart_service invocations made for fingerprint id
RestartsFor(id) == {k \in 1..Len(restarts) : restarts[k].for = id}

\* C15: missing-module remediation.  For a module-not-found event for module M
\* from the log of service S the installer is invoked once, for M, in
\* frontend/S; the fix counts as applied iff the installer exits with 0, and
\* then restart_service is invoked once for S in that cycle, else not at all.
C15_MissingModuleRemediation ==
    \A i \in 1..Len(calls) :
        calls[i].type = "missing_module" =>
            /\ CallsFor(calls[i].id) = {i}
            /\ calls[i].id = "missing:" \o calls[i].target
            /\ calls[i].cwd = "/w/frontend/" \o calls[i].app
            /\ calls[i].applied <=> calls[i].npm = "exit_0"
            /\ Cardinality(RestartsFor(calls[i].id)) = IF calls[i].applied THEN 1 ELSE 0
            /\ \A k \in RestartsFor(calls[i].id) :
                  restarts[k].app = calls[i].app /\ restarts[k].cycle = calls[i].cycle

\* lodash was reported by user-management-app alone, installed there with exit
\* status 0, and one restart was asked for that service
C15_Witness ==
    /\ pc = "done"
    /\ \E i \in 1..Len(calls) :
          /\ calls[i].type = "missing_module"
          /\ calls[i].app = "user-management-app"
          /\ calls[i].target = "lodash"
          /\ calls[i].applied
          /\ Cardinality(RestartsFor(calls[i].id)) = 1

\* C16: tsconfig_no_emit is idempotent.  A second call in a row, after a first
\* call that ran to its end, leaves the content the first call left and
\* reports applied=false; a file without the entry "noEmit": true (flag false,
\* absent, or no file) is left as it is with applied=false; a file with it,
\* when the write completes, is rewritten with applied=true and holds the
\* entry no more.
C16_NoEmitIdempotent ==
    \A i \in 1..Len(calls) :
        calls[i].type = "tsconfig_no_emit" =>
            LET b == calls[i].before.tsconfig["container"]
                a == calls[i].after.tsconfig["container"]
            IN  /\ (i >= 2 /\ calls[1].io \in {"none", "written"})
                      => ~calls[i].applied /\ a = calls[1].after.tsconfig["container"]
                /\ (~b.exists \/ NoEmitTrue \notin RangeOf(b.content))
                      => ~calls[i].applied /\ a = b
                /\ (b.exists /\ NoEmitTrue \in RangeOf(b.content) /\ calls[i].io = "written")
                      => calls[i].applied /\ NoEmitTrue \notin RangeOf(a.content)
                /\ calls[i].after.tsconfig["settings-app"]
                      = calls[i].before.tsconfig["settings-app"]

\* the strategy was called twice on a tsconfig.json with two "noEmit": true
\* entries: the first call applied, the second declined
C16_Witness ==
    /\ Len(calls) = 2
    /\ calls[1].type = "tsconfig_no_emit"
    /\ calls[1].before.tsconfig["container"].content = <<NoEmitTrue, NoEmitTrue>>
    /\ calls[1].applied
    /\ ~calls[2].applied
    /\ tsconfig["container"].content = <<NoEmitFalse, NoEmitFalse>>

\* the event the strategy is called for
TheError == webpack_errors[1]

\* the line of the file of call i that the event names, before and after the call
LineBefore(i) ==
    LET lines == calls[i].before.files[PathStr(calls[i].file)]
    IN  lines[TargetIndex(TheError.line, Len(lines))]

LineAfter(i) ==
    LET lines == calls[i].after.files[PathStr(calls[i].file)]
    IN  lines[TargetIndex(TheError.line, Len(lines))]

\* call i was an applied edit for diagnostic code
AppliedEdit(i, code) ==
    calls[i].type = "typescript" /\ TheError.code = code /\ calls[i].applied

\* C17: every strategy is idempotent.  A call that follows a call which
\* reported applied=true, on the state that call left, changes nothing and
\* reports applied=false.
C17_StrategiesIdempotent ==
    \A i \in 2..Len(calls) :
        calls[i - 1].applied =>
            ~calls[i].applied /\ calls[i].after = calls[i].before

\* the "../" tokens of a line
UpsIn(l) == Cardinality({k \in 1..Len(l) : l[k] = "../"})

\* the number of directories between the frontend directory, where
\* shared-ui-lib lies, and the file: 2 for frontend/container/src/Foo.tsx
DirDepth(file_path) == Len(file_path) - Len(FrontendDir("container"))

\* C18: import-path prefix.  The import rewritten for a TS2307 diagnostic has as
\* many "../" as the file lies directories deep, so that files at different
\* depths get different prefixes.
C18_PrefixFollowsDepth ==
    \A i \in 1..Len(calls) :
        AppliedEdit(i, "TS2307") => UpsIn(LineAfter(i)) = DirDepth(calls[i].file)

NotUp(tok) == tok # "../"

\* C19: the import-path rewrite touches the specifier only.  But for its "../"
\* tokens the rewritten line is the line as it was, quote characters included.
C19_OnlySpecifierChanges ==
    \A i \in 1..Len(calls) :
        AppliedEdit(i, "TS2307") =>
            SelectSeq(LineAfter(i), NotUp) = SelectSeq(LineBefore(i), NotUp)

\* the parameter name of a TS7006 message, "" when there is none
ParamOf(message) ==
    IF ParamMatches(message) = {} THEN ""
    ELSE message[Min(ParamMatches(message)) + 2]

\* the occurrences of name in line l that no ":" follows
Unannotated(l, name) ==
    {k \in 1..Len(l) : l[k] = name /\ ~(k + 1 <= Len(l) /\ l[k + 1] = ":")}

\* C20: implicit-any annotation.  An applied TS7006 edit puts ": any" behind the
\* first unannotated occurrence of the parameter name and leaves the rest of
\* the line as it was; without a parameter name in the message or without an
\* unannotated occurrence the strategy declines and leaves the files as they are.
C20_FirstOccurrenceAnnotated ==
    \A i \in 1..Len(calls) :
        (calls[i].type = "typescript" /\ TheError.code = "TS7006"
           /\ calls[i].file # <<>>) =>
            LET l    == LineBefore(i)
                name == ParamOf(TheError.message)
            IN  IF calls[i].applied
                THEN /\ Unannotated(l, name) # {}
                     /\ LET k == Min(Unannotated(l, name))
                        IN  LineAfter(i) = SubSeq(l, 1, k) \o <<":", "any">>
                                             \o SubSeq(l, k + 1, Len(l))
                ELSE calls[i].after = calls[i].before

\* C21: runtime events are never remediated.  No fingerprint of a runtime event
\* is in fixed_errors, no strategy and no restart is invoked for one, and the
\* number of fixes a cycle returns is the number of its strategy calls that
\* reported applied=true.
C21_RuntimeNeverRemediated ==
    /\ fixed_errors \cap RuntimeIds = {}
    /\ \A id \in RuntimeIds : CallsFor(id) = {} /\ RestartsFor(id) = {}
    /\ pc = "cycle_end" => fixes_applied = FixesIn(iteration)

\* runtime events were returned in a cycle that also applied a fix, and the run
\* has ended
C21_Witness ==
    /\ pc = "done"
    /\ "runtime:e1" \in seen_errors
    /\ "runtime:" \in seen_errors
    /\ total_fixes = 1
    /\ Len(restarts) = 1

\* the strategy calls and the restart calls under way
CallsUnderWay == {i \in 1..Len(calls) : ~calls[i].returned}
RestartsUnderWay == {k \in 1..Len(restarts) : ~restarts[k].returned}

\* C22: sequential execution.  At most one call, strategy or restart, is under
\* way at any moment, and it is the one started last: every earlier strategy
\* call and restart call has returned.
C22_OneCallAtATime ==
    pc # "aborted" =>
        /\ Cardinality(CallsUnderWay) + Cardinality(RestartsUnderWay) <= 1
        /\ CallsUnderWay \subseteq {Len(calls)}
        /\ RestartsUnderWay \subseteq {Len(restarts)}
        /\ CallsUnderWay # {} <=> pc = "strategy"
        /\ RestartsUnderWay # {} <=> pc = "restart"

\* the cycle restarted container twice and another service once, one call
\* after the other
C22_Witness ==
    /\ pc = "fix"
    /\ webpack_errors = <<>>
    /\ Len(calls) = 3
    /\ Len(restarts) = 3
    /\ Cardinality({k \in 1..Len(restarts) : restarts[k].app = "container"}) = 2
    /\ \A k \in 1..Len(restarts) : restarts[k].returned


\* the lines of the file of call i before and after the call
FileBefore(i) == calls[i].before.files[PathStr(calls[i].file)]
FileAfter(i) == calls[i].after.files[PathStr(calls[i].file)]

\* C23: single-line frame.  A type-error strategy keeps the number of lines of
\* the file and changes no line other than the one the event reports.
C23_SingleLineFrame ==
    \A i \in 1..Len(calls) :
        calls[i].type = "typescript" =>
            /\ Len(FileAfter(i)) = Len(FileBefore(i))
            /\ \A j \in 1..Len(FileBefore(i)) :
                   j # TheError.line => FileAfter(i)[j] = FileBefore(i)[j]


\* C27: out-of-range line.  When the reported line is 0 or greater than the
\* number of lines of the file, the line-edit strategy declines and the file
\* is unchanged.
C27_OutOfRangeDeclines ==
    \A i \in 1..Len(calls) :
        (calls[i].type = "typescript" /\ TheError.line \notin 1..Len(FileBefore(i))) =>
            /\ ~calls[i].applied
            /\ calls[i].after.files = calls[i].before.files


\* C24: a strategy that returns applied=false, whatever the reason, leaves the
\* fixed set and the files of the working tree as they were.
C24_DeclinedLeavesState ==
    \A i \in 1..Len(calls) :
        (~calls[i].applied /\ calls[i].io # "crash") =>
            /\ calls[i].after.fixed = calls[i].before.fixed
            /\ calls[i].after.files = calls[i].before.files
            /\ calls[i].after.tsconfig = calls[i].before.tsconfig

\* C26: no partial writes.  When the process is killed while a strategy edits
\* a file, the working tree holds the complete original content or the complete
\* updated content.
C26_NoPartialWrites ==
    \A i \in 1..Len(calls) :
        calls[i].io = "crash" =>
            \/ /\ calls[i].after.files = calls[i].before.files
               /\ calls[i].after.tsconfig = calls[i].before.tsconfig
            \/ /\ calls[i].after.files = calls[i].complete.files
               /\ calls[i].after.tsconfig = calls[i].complete.tsconfig


\* C25: bounded loop.  Every run that has passed the pre-flight check
\* eventually reaches DONE, the summary printed and success returned.
C25_ReachesDone == (pc = "loop") ~> (pc = "done")


\* C28: fixed is a subset of seen.  Every fingerprint in the fixed set is in
\* the seen set.
C28_FixedSubsetOfSeen == fixed_errors \subseteq seen_errors

\* C29: at most one remediation attempt per fingerprint.  Over a run no two
\* strategy invocations are for the same fingerprint, whatever the outcome of
\* the first and whatever the logs hold in later cycles.
C29_OneAttemptPerFingerprint ==
    \A i \in 1..Len(calls) : \A j \in 1..Len(calls) :
        calls[i].id = calls[j].id => i = j

\* the run is over after two cycles or more; a strategy declined in cycle 1
\* for an error that the logs still hold, and was not called for it again
C29_Witness ==
    /\ pc = "done"
    /\ iteration >= 2
    /\ \E i \in 1..Len(calls) :
          /\ calls[i].cycle = 1
          /\ ~calls[i].applied
          /\ StillLogged(calls[i].id)
          /\ CallsFor(calls[i].id) = {i}

\* C30: no sleep after the last cycle.  The controller sleeps only when another
\* cycle follows: never after the cycle that used up max_iterations.
C30_NoSleepAfterLastCycle == pc = "sleep" => iteration < max_iterations

====
